---- MODULE Spec2Model ----
(***************************************************************************)
(* The crawl-session lifecycle and live status protocol of the ChatInterface *)
(* component (src/src/components/ChatInterface.tsx).                         *)
(*                                                                           *)
(* The component's React state, its EventSource ref, the EventSource         *)
(* objects it creates, their connection timers, the 500 ms subscribe timers  *)
(* and the fetch calls in flight are the state; every event handler, timer   *)
(* callback and await-continuation is one action (the browser runs each to   *)
(* completion on one event loop).                                            *)
(*                                                                           *)
(* Strings are sequences of tokens, so that trim() and JavaScript truthiness *)
(* are computed; <<"undefined">> stands for the JavaScript value undefined.  *)
(* State setters called after the component is unmounted change nothing      *)
(* (React drops them); the ref, the EventSource objects and the timers       *)
(* outlive the component.  The diagnostic health/sessions calls made on      *)
(* mount (lines 79-116) only raise a toast and are not modelled; toasts are  *)
(* not part of the state.                                                    *)
(***************************************************************************)
EXTENDS Integers, Sequences, FiniteSets, TLC

\* ------------------------------------------------------------------ bounds
\* crawls started (valid handleCrawl calls) in one behaviour
MaxCrawls == 2
\* chat queries sent in one behaviour
MaxSends == 2
\* largest value of the clock Date.now() reads
MaxClock == 1

\* --------------------------------------------------------------- constants
DefaultLimit == 10
UiMinLimit == 1
UiMaxLimit == 20
CheckMinLimit == 1
CheckMaxLimit == 100

\* --------------------------------------------------------------- values
Null == <<"null">>
Undefined == <<"undefined">>
Space == " "
Slash == "/"

\* what the user can type into the url field and into the chat field
Urls == {<<>>, <<Space>>, <<Space, "u">>}
Texts == {<<>>, <<Space, "q">>}
\* the session id the server creates for the n-th crawl it is asked for
SessionIdOf(n) == <<"session", ToString(n)>>
\* the summary of a completed event: missing, empty or a text
Summaries == {Undefined, <<>>, <<"S">>}

\* parseInt(e.target.value) for what may be typed into the pages field
NaN == [nan |-> TRUE, value |-> 0]
Num(n) == [nan |-> FALSE, value |-> n]
LimitInputs == {NaN, Num(-3), Num(0), Num(1), Num(20), Num(25)}

\* event.data of a status event: text that JSON.parse accepts as a CrawlStatus,
\* or text it rejects
StatusTypes == {"connected", "status", "progress", "completed", "error"}
Payload(valid, type, summary) == [valid |-> valid, type |-> type, summary |-> summary]
Payloads ==
    {Payload(TRUE, t, Undefined) : t \in StatusTypes \ {"completed"}}
        \cup {Payload(TRUE, "completed", s) : s \in Summaries}
        \cup {Payload(FALSE, "malformed", Undefined)}

\* outcomes of the n-th POST /crawl: a body with the session id, a non-2xx
\* status, a rejected promise (fetch fails on the network, or response.json()
\* fails on a malformed body)
CrawlReplies(n) ==
    {[kind |-> "ok", session_id |-> SessionIdOf(n)]}
        \cup {[kind |-> k, session_id |-> Undefined] : k \in {"http", "rejected"}}

\* outcomes of POST /chat: a body with response and search_results, a body
\* without them, a non-2xx status, a rejected promise (fetch fails on the
\* network, or response.json() fails on a malformed body)
ChatReplies ==
    {[kind |-> "ok", response |-> <<"A">>, search_results |-> <<"R">>],
     [kind |-> "ok", response |-> <<>>, search_results |-> Undefined],
     [kind |-> "http", response |-> Undefined, search_results |-> Undefined],
     [kind |-> "rejected", response |-> Undefined, search_results |-> Undefined]}

\* ------------------------------------------------------------- pure helpers
\* JavaScript truthiness of an optional string
Truthy(s) ==
    s # Undefined /\ s # Null /\ s # <<>>

RECURSIVE TrimStart(_)
TrimStart(s) ==
    IF s # <<>> /\ Head(s) = Space THEN TrimStart(Tail(s)) ELSE s

RECURSIVE TrimEnd(_)
TrimEnd(s) ==
    IF s # <<>> /\ s[Len(s)] = Space THEN TrimEnd(SubSeq(s, 1, Len(s) - 1)) ELSE s

\* String.prototype.trim
Trim(s) ==
    TrimEnd(TrimStart(s))

Min(a, b) ==
    IF a < b THEN a ELSE b

Max(a, b) ==
    IF a > b THEN a ELSE b

\* mutant of ClampLimit: the upper clamp Math.min(.., 20) is left out
ClampLimitNoUpper(p) ==
    LET value == IF p.nan \/ p.value = 0 THEN DefaultLimit ELSE p.value
    IN  Max(value, UiMinLimit)

\* the pages field's onChange: parseInt(value) || 10, clamped to 1..20
ClampLimit(p) ==
    LET value == IF p.nan \/ p.value = 0 THEN DefaultLimit ELSE p.value
    IN  Min(Max(value, UiMinLimit), UiMaxLimit)

\* the blank test of handleCrawl and handleSendMessage (!s.trim()) and
\* handleCrawl's range check
IsBlank(u) ==
    Trim(u) = <<>>

LimitOutOfRange(l) ==
    l < CheckMinLimit \/ l > CheckMaxLimit

\* a Message; timestamp is the clock value the id is taken from
Message(id, role, content, results) ==
    [id |-> id, role |-> role, content |-> content, search_results |-> results]

\* mutant of ChatHistory: only the turn just added is sent
ChatHistoryLastTurnOnly(msgs) ==
    [i \in 1..1 |-> [role |-> msgs[Len(msgs)].role,
                     content |-> msgs[Len(msgs)].content]]

\* the {role, content} projection sent as chat_history
ChatHistory(msgs) ==
    [i \in 1..Len(msgs) |-> [role |-> msgs[i].role, content |-> msgs[i].content]]

\* error.message of a failed chat query
ErrorText(kind) ==
    <<"Sorry, I encountered an error", kind>>

\* API_BASE_URL
ApiBaseUrl ==
    <<"origin", Slash>>

\* mutant of BuildApiUrl: the trailing slash of the origin is kept
BuildApiUrlKeepsTrailingSlash(base, path) ==
    base \o (IF path # <<>> /\ path[1] = Slash THEN path ELSE <<Slash>> \o path)

\* buildApiUrl(path), for API_BASE_URL = base
BuildApiUrl(base, path) ==
    LET baseWithoutTrailingSlash ==
            IF base # <<>> /\ base[Len(base)] = Slash
            THEN SubSeq(base, 1, Len(base) - 1)
            ELSE base
        pathWithLeadingSlash ==
            IF path # <<>> /\ path[1] = Slash THEN path ELSE <<Slash>> \o path
    IN  baseWithoutTrailingSlash \o pathWithLeadingSlash

VARIABLES
    mounted,          \* the component is mounted
    now,              \* Date.now()
    url, limit, sessionId, isCrawling, isCrawled, crawlStatus,
    messages, currentMessage, isSending,
    eventSourceRef,   \* index into es of eventSourceRef.current, 0 for null
    es,               \* the EventSource objects created so far
    subscribeTimers,  \* the 500 ms timers of handleCrawl not yet fired
    crawlReqs,        \* POST /crawl calls in flight
    chatReqs,         \* POST /chat calls in flight
    nCrawls, nSends,  \* calls issued so far
    apiCall           \* a call of buildApiUrl: the origin, the path, the URL built

vars ==
    <<mounted, now, url, limit, sessionId, isCrawling, isCrawled, crawlStatus,
      messages, currentMessage, isSending, eventSourceRef, es, subscribeTimers,
      crawlReqs, chatReqs, nCrawls, nSends, apiCall>>

\* the React state of the component
reactState ==
    <<url, limit, sessionId, isCrawling, isCrawled, crawlStatus, messages,
      currentMessage, isSending>>

\* a state setter: dropped once the component is unmounted
Set(new, old) ==
    IF mounted THEN new ELSE old

\* mutant of Closed: close() on a channel that is already closed reconnects it
ClosedReconnects(e, k) ==
    IF k = 0 THEN e
    ELSE [e EXCEPT ![k].readyState =
                       IF @ = "CLOSED" THEN "CONNECTING" ELSE "CLOSED"]

\* EventSource.close() on channel k of e (k = 0: no channel)
Closed(e, k) ==
    IF k = 0 THEN e
    ELSE [e EXCEPT ![k].readyState = "CLOSED"]

\* clearTimeout(timeoutId) of channel k
TimerCleared(e, k) ==
    [e EXCEPT ![k].timer = IF @ = "armed" THEN "off" ELSE @]

Init ==
    /\ mounted = TRUE
    /\ now = 0
    /\ url = <<>>
    /\ limit = DefaultLimit
    /\ sessionId = Null
    /\ isCrawling = FALSE
    /\ isCrawled = FALSE
    /\ crawlStatus = ""
    /\ messages = <<>>
    /\ currentMessage = <<>>
    /\ isSending = FALSE
    /\ eventSourceRef = 0
    /\ es = <<>>
    /\ subscribeTimers = {}
    /\ crawlReqs = {}
    /\ chatReqs = {}
    /\ nCrawls = 0
    /\ nSends = 0
    /\ apiCall = [base |-> ApiBaseUrl, path |-> <<"health">>,
                  url |-> BuildApiUrl(ApiBaseUrl, <<"health">>)]

\* time passes
Tick ==
    /\ now < MaxClock
    /\ now' = now + 1
    /\ UNCHANGED <<apiCall, mounted, reactState, eventSourceRef, es, subscribeTimers,
                   crawlReqs, chatReqs, nCrawls, nSends>>

\* ------------------------------------------------------------ crawl start
\* handleCrawl up to its await: the two validation checks, then
\* setIsCrawling(true), the status text and the POST /crawl call
HandleCrawl ==
    IF IsBlank(url) \/ LimitOutOfRange(limit)
    THEN UNCHANGED vars
    ELSE /\ nCrawls < MaxCrawls
         /\ isCrawling' = TRUE
         /\ crawlStatus' = "starting"
         /\ nCrawls' = nCrawls + 1
         /\ crawlReqs' = crawlReqs \cup
                {[n |-> nCrawls + 1, url |-> url, limit |-> limit]}
         /\ UNCHANGED <<apiCall, mounted, now, url, limit, sessionId, isCrawled, messages,
                        currentMessage, isSending, eventSourceRef, es,
                        subscribeTimers, chatReqs, nSends>>

\* mutant of HandleCrawlResponse: the id is read from a field the response does
\* not have (result.sessionId), so undefined is stored
HandleCrawlResponseWrongField(r, reply) ==
    /\ r \in crawlReqs
    /\ crawlReqs' = crawlReqs \ {r}
    /\ IF reply.kind = "ok"
       THEN /\ sessionId' = Set(Undefined, sessionId)
            /\ subscribeTimers' = subscribeTimers \cup
                   {[n |-> r.n, session_id |-> reply.session_id]}
            /\ UNCHANGED isCrawling
       ELSE /\ isCrawling' = Set(FALSE, isCrawling)
            /\ UNCHANGED <<sessionId, subscribeTimers>>
    /\ UNCHANGED <<apiCall, mounted, now, url, limit, isCrawled, crawlStatus, messages,
                   currentMessage, isSending, eventSourceRef, es, chatReqs,
                   nCrawls, nSends>>

\* mutant of HandleCrawlResponse: the catch block also schedules the
\* subscription, for the session id held in state
HandleCrawlResponseSubscribesAnyway(r, reply) ==
    /\ r \in crawlReqs
    /\ crawlReqs' = crawlReqs \ {r}
    /\ IF reply.kind = "ok"
       THEN /\ sessionId' = Set(reply.session_id, sessionId)
            /\ subscribeTimers' = subscribeTimers \cup
                   {[n |-> r.n, session_id |-> reply.session_id]}
            /\ UNCHANGED isCrawling
       ELSE /\ isCrawling' = Set(FALSE, isCrawling)
            /\ subscribeTimers' = subscribeTimers \cup
                   {[n |-> r.n, session_id |-> sessionId]}
            /\ UNCHANGED sessionId
    /\ UNCHANGED <<apiCall, mounted, now, url, limit, isCrawled, crawlStatus,
                   messages, currentMessage, isSending, eventSourceRef, es,
                   chatReqs, nCrawls, nSends>>

\* mutant of HandleCrawlResponse: the catch block leaves isCrawling set
HandleCrawlResponseKeepsCrawling(r, reply) ==
    /\ r \in crawlReqs
    /\ crawlReqs' = crawlReqs \ {r}
    /\ IF reply.kind = "ok"
       THEN /\ sessionId' = Set(reply.session_id, sessionId)
            /\ subscribeTimers' = subscribeTimers \cup
                   {[n |-> r.n, session_id |-> reply.session_id]}
       ELSE UNCHANGED <<sessionId, subscribeTimers>>
    /\ UNCHANGED <<apiCall, mounted, now, url, limit, isCrawling, isCrawled, crawlStatus,
                   messages, currentMessage, isSending, eventSourceRef, es,
                   chatReqs, nCrawls, nSends>>

\* handleCrawl after its await, the call r having ended with this reply: the
\* session id is stored and the subscription scheduled 500 ms later, or the
\* catch block clears the crawling flag
HandleCrawlResponse(r, reply) ==
    /\ r \in crawlReqs
    /\ crawlReqs' = crawlReqs \ {r}
    /\ IF reply.kind = "ok"
       THEN /\ sessionId' = Set(reply.session_id, sessionId)
            /\ subscribeTimers' = subscribeTimers \cup
                   {[n |-> r.n, session_id |-> reply.session_id]}
            /\ UNCHANGED isCrawling
       ELSE /\ isCrawling' = Set(FALSE, isCrawling)
            /\ UNCHANGED <<sessionId, subscribeTimers>>
    /\ UNCHANGED <<apiCall, mounted, now, url, limit, isCrawled, crawlStatus, messages,
                   currentMessage, isSending, eventSourceRef, es, chatReqs,
                   nCrawls, nSends>>

\* --------------------------------------------------------- status channel
\* a new EventSource with its 60 s connection timer armed (a timer that has run
\* or was cleared is off)
NewEventSource(sid) ==
    [readyState |-> "CONNECTING", session |-> sid, timer |-> "armed"]

\* mutant of StoredRef: the new EventSource is never stored in the ref
StoredRefKeepsPrevious(previous, created) ==
    previous

\* what subscribeToStatus leaves in the ref: the EventSource just created
\* (index created), whatever it held before (index previous)
StoredRef(previous, created) ==
    created

\* subscribeToStatus(sessionId), run by a 500 ms timer of handleCrawl: the
\* referenced EventSource is closed, a new one is created and stored in the ref.
\* (new EventSource does not throw for a URL built by buildApiUrl, so the catch
\* block of lines 192-201 is never entered.)
SubscribeToStatus(t) ==
    /\ t \in subscribeTimers
    /\ subscribeTimers' = subscribeTimers \ {t}
    /\ es' = Append(Closed(es, eventSourceRef), NewEventSource(t.session_id))
    /\ eventSourceRef' = StoredRef(eventSourceRef, Len(es) + 1)
    /\ UNCHANGED <<apiCall, mounted, now, reactState, crawlReqs, chatReqs, nCrawls, nSends>>

\* mutant of ConnectionTimeout: the callback closes the channel and sets the
\* status text but leaves isCrawling set
ConnectionTimeoutKeepsCrawling(k) ==
    /\ k \in 1..Len(es)
    /\ es[k].timer = "armed"
    /\ es' = [Closed(es, eventSourceRef) EXCEPT ![k].timer = "off"]
    /\ crawlStatus' = Set("timeout", crawlStatus)
    /\ UNCHANGED <<apiCall, mounted, now, url, limit, sessionId, isCrawling, isCrawled,
                   messages, currentMessage, isSending, eventSourceRef,
                   subscribeTimers, crawlReqs, chatReqs, nCrawls, nSends>>

\* mutant of ConnectionTimeout: the callback clears the flag and sets the
\* status text but does not close the channel
ConnectionTimeoutLeavesOpen(k) ==
    /\ k \in 1..Len(es)
    /\ es[k].timer = "armed"
    /\ es' = [es EXCEPT ![k].timer = "off"]
    /\ isCrawling' = Set(FALSE, isCrawling)
    /\ crawlStatus' = Set("timeout", crawlStatus)
    /\ UNCHANGED <<apiCall, mounted, now, url, limit, sessionId, isCrawled, messages,
                   currentMessage, isSending, eventSourceRef, subscribeTimers,
                   crawlReqs, chatReqs, nCrawls, nSends>>

\* the 60 s timer of channel k fires: whatever the ref holds is closed
ConnectionTimeout(k) ==
    /\ k \in 1..Len(es)
    /\ es[k].timer = "armed"
    /\ IF eventSourceRef # 0
       THEN /\ es' = [Closed(es, eventSourceRef) EXCEPT ![k].timer = "off"]
            /\ isCrawling' = Set(FALSE, isCrawling)
            /\ crawlStatus' = Set("timeout", crawlStatus)
       ELSE /\ es' = [es EXCEPT ![k].timer = "off"]
            /\ UNCHANGED <<isCrawling, crawlStatus>>
    /\ UNCHANGED <<apiCall, mounted, now, url, limit, sessionId, isCrawled, messages,
                   currentMessage, isSending, eventSourceRef, subscribeTimers,
                   crawlReqs, chatReqs, nCrawls, nSends>>

\* mutant of OnOpen: clearTimeout(timeoutId) is left out
OnOpenKeepsTimer(k) ==
    /\ k \in 1..Len(es)
    /\ es[k].readyState = "CONNECTING"
    /\ es' = [es EXCEPT ![k].readyState = "OPEN"]
    /\ crawlStatus' = Set("established", crawlStatus)
    /\ UNCHANGED <<apiCall, mounted, now, url, limit, sessionId, isCrawling, isCrawled,
                   messages, currentMessage, isSending, eventSourceRef,
                   subscribeTimers, crawlReqs, chatReqs, nCrawls, nSends>>

\* eventSource.onopen: the connection is established
OnOpen(k) ==
    /\ k \in 1..Len(es)
    /\ es[k].readyState = "CONNECTING"
    /\ es' = [TimerCleared(es, k) EXCEPT ![k].readyState = "OPEN"]
    /\ crawlStatus' = Set("established", crawlStatus)
    /\ UNCHANGED <<apiCall, mounted, now, url, limit, sessionId, isCrawling, isCrawled,
                   messages, currentMessage, isSending, eventSourceRef,
                   subscribeTimers, crawlReqs, chatReqs, nCrawls, nSends>>

\* mutant of OnError: the handler closes the channel but leaves isCrawling set
OnErrorKeepsCrawling(k) ==
    /\ k \in 1..Len(es)
    /\ es[k].readyState \in {"CONNECTING", "OPEN"}
    /\ es' = Closed(TimerCleared(es, k), k)
    /\ crawlStatus' = Set("connection error", crawlStatus)
    /\ UNCHANGED <<apiCall, mounted, now, url, limit, sessionId, isCrawling, isCrawled,
                   messages, currentMessage, isSending, eventSourceRef,
                   subscribeTimers, crawlReqs, chatReqs, nCrawls, nSends>>

\* mutant of OnError: clearTimeout(timeoutId) is left out
OnErrorKeepsTimer(k) ==
    /\ k \in 1..Len(es)
    /\ es[k].readyState \in {"CONNECTING", "OPEN"}
    /\ es' = Closed(es, k)
    /\ isCrawling' = Set(FALSE, isCrawling)
    /\ crawlStatus' = Set("connection error", crawlStatus)
    /\ UNCHANGED <<apiCall, mounted, now, url, limit, sessionId, isCrawled, messages,
                   currentMessage, isSending, eventSourceRef, subscribeTimers,
                   crawlReqs, chatReqs, nCrawls, nSends>>

\* eventSource.onerror: the connection failed or dropped
OnError(k) ==
    /\ k \in 1..Len(es)
    /\ es[k].readyState \in {"CONNECTING", "OPEN"}
    /\ es' = Closed(TimerCleared(es, k), k)
    /\ isCrawling' = Set(FALSE, isCrawling)
    /\ crawlStatus' = Set("connection error", crawlStatus)
    /\ UNCHANGED <<apiCall, mounted, now, url, limit, sessionId, isCrawled, messages,
                   currentMessage, isSending, eventSourceRef, subscribeTimers,
                   crawlReqs, chatReqs, nCrawls, nSends>>

\* the transcript after a completed event with this summary
SeededMessages(summary) ==
    IF Truthy(summary)
    THEN <<Message(now, "ai", summary, Undefined)>>
    ELSE messages

\* mutant of HandleStatusUpdate: the status case falls through to the end of
\* the crawl (flag cleared, channel closed)
HandleStatusUpdateStatusEndsCrawl(data) ==
    CASE data.type \in {"connected", "progress"} ->
            /\ crawlStatus' = Set(data.type, crawlStatus)
            /\ UNCHANGED es
            /\ UNCHANGED <<isCrawled, isCrawling, messages>>
      [] data.type = "completed" ->
            /\ crawlStatus' = Set("completed", crawlStatus)
            /\ isCrawled' = Set(TRUE, isCrawled)
            /\ isCrawling' = Set(FALSE, isCrawling)
            /\ messages' = Set(SeededMessages(data.summary), messages)
            /\ es' = Closed(es, eventSourceRef)
      [] data.type \in {"status", "error"} ->
            /\ crawlStatus' = Set(data.type, crawlStatus)
            /\ isCrawling' = Set(FALSE, isCrawling)
            /\ es' = Closed(es, eventSourceRef)
            /\ UNCHANGED <<isCrawled, messages>>

\* mutant of HandleStatusUpdate: the completed case leaves isCrawling set
HandleStatusUpdateCompletedKeepsCrawling(data) ==
    CASE data.type \in {"connected", "status", "progress"} ->
            /\ crawlStatus' = Set(data.type, crawlStatus)
            /\ UNCHANGED es
            /\ UNCHANGED <<isCrawled, isCrawling, messages>>
      [] data.type = "completed" ->
            /\ crawlStatus' = Set("completed", crawlStatus)
            /\ isCrawled' = Set(TRUE, isCrawled)
            /\ messages' = Set(SeededMessages(data.summary), messages)
            /\ es' = Closed(es, eventSourceRef)
            /\ UNCHANGED isCrawling
      [] data.type = "error" ->
            /\ crawlStatus' = Set("error", crawlStatus)
            /\ isCrawling' = Set(FALSE, isCrawling)
            /\ es' = Closed(es, eventSourceRef)
            /\ UNCHANGED <<isCrawled, messages>>

\* mutant of HandleStatusUpdate: the error case does not close the channel
HandleStatusUpdateErrorKeepsOpen(data) ==
    CASE data.type \in {"connected", "status", "progress"} ->
            /\ crawlStatus' = Set(data.type, crawlStatus)
            /\ UNCHANGED es
            /\ UNCHANGED <<isCrawled, isCrawling, messages>>
      [] data.type = "completed" ->
            /\ crawlStatus' = Set("completed", crawlStatus)
            /\ isCrawled' = Set(TRUE, isCrawled)
            /\ isCrawling' = Set(FALSE, isCrawling)
            /\ messages' = Set(SeededMessages(data.summary), messages)
            /\ es' = Closed(es, eventSourceRef)
      [] data.type = "error" ->
            /\ crawlStatus' = Set("error", crawlStatus)
            /\ isCrawling' = Set(FALSE, isCrawling)
            /\ UNCHANGED es
            /\ UNCHANGED <<isCrawled, messages>>

\* handleStatusUpdate(data)
HandleStatusUpdate(data) ==
    CASE data.type \in {"connected", "status", "progress"} ->
            /\ crawlStatus' = Set(data.type, crawlStatus)
            /\ UNCHANGED es
            /\ UNCHANGED <<isCrawled, isCrawling, messages>>
      [] data.type = "completed" ->
            /\ crawlStatus' = Set("completed", crawlStatus)
            /\ isCrawled' = Set(TRUE, isCrawled)
            /\ isCrawling' = Set(FALSE, isCrawling)
            /\ messages' = Set(SeededMessages(data.summary), messages)
            /\ es' = Closed(es, eventSourceRef)
      [] data.type = "error" ->
            /\ crawlStatus' = Set("error", crawlStatus)
            /\ isCrawling' = Set(FALSE, isCrawling)
            /\ es' = Closed(es, eventSourceRef)
            /\ UNCHANGED <<isCrawled, messages>>

\* the catch block of onmessage: JSON.parse threw
ParseFailure ==
    /\ crawlStatus' = Set("parse error", crawlStatus)
    /\ UNCHANGED <<es, isCrawled, isCrawling, messages>>

\* eventSource.onmessage: an event with this payload arrives on the open
\* channel k and is dispatched (nothing is dispatched on a closed channel)
OnMessage(k, event) ==
    /\ k \in 1..Len(es)
    /\ es[k].readyState = "OPEN"
    /\ IF event.valid THEN HandleStatusUpdate(event) ELSE ParseFailure
    /\ UNCHANGED <<apiCall, mounted, now, url, limit, sessionId, currentMessage, isSending,
                   eventSourceRef, subscribeTimers, crawlReqs, chatReqs, nCrawls,
                   nSends>>

\* -------------------------------------------------------------------- chat
\* mutant of HandleSendMessage: setIsSending(true) is left out
HandleSendMessageKeepsIdle ==
    IF IsBlank(currentMessage) \/ ~Truthy(sessionId)
    THEN UNCHANGED vars
    ELSE /\ nSends < MaxSends
         /\ LET userMessage == Message(now, "human", currentMessage, Undefined)
            IN  /\ messages' = Append(messages, userMessage)
                /\ chatReqs' = chatReqs \cup
                       {[n |-> nSends + 1,
                         session_id |-> sessionId,
                         chat_history |-> ChatHistory(Append(messages, userMessage)),
                         userMessage |-> userMessage]}
         /\ currentMessage' = <<>>
         /\ nSends' = nSends + 1
         /\ UNCHANGED <<apiCall, mounted, now, url, limit, sessionId, isCrawling, isCrawled,
                        crawlStatus, isSending, eventSourceRef, es, subscribeTimers,
                        crawlReqs, nCrawls>>

\* handleSendMessage up to its await: the guard, the human turn, the history
\* built from the rendered transcript, and the POST /chat call
HandleSendMessage ==
    IF IsBlank(currentMessage) \/ ~Truthy(sessionId)
    THEN UNCHANGED vars
    ELSE /\ nSends < MaxSends
         /\ LET userMessage == Message(now, "human", currentMessage, Undefined)
            IN  /\ messages' = Append(messages, userMessage)
                /\ chatReqs' = chatReqs \cup
                       {[n |-> nSends + 1,
                         session_id |-> sessionId,
                         chat_history |-> ChatHistory(Append(messages, userMessage)),
                         userMessage |-> userMessage]}
         /\ currentMessage' = <<>>
         /\ isSending' = TRUE
         /\ nSends' = nSends + 1
         /\ UNCHANGED <<apiCall, mounted, now, url, limit, sessionId, isCrawling, isCrawled,
                        crawlStatus, eventSourceRef, es, subscribeTimers, crawlReqs,
                        nCrawls>>

\* the assistant turn handleSendMessage builds from the outcome of its call
AssistantMessage(reply) ==
    IF reply.kind = "ok"
    THEN Message(now + 1, "ai",
                 IF Truthy(reply.response) THEN reply.response
                 ELSE <<"I received your message.">>,
                 reply.search_results)
    ELSE Message(now + 1, "ai", ErrorText(reply.kind), Undefined)

\* mutant of HandleChatResponse: isSending is cleared at the end of the try
\* block instead of in finally
HandleChatResponseNoFinally(r, reply) ==
    /\ r \in chatReqs
    /\ chatReqs' = chatReqs \ {r}
    /\ messages' = Set(Append(messages, AssistantMessage(reply)), messages)
    /\ isSending' = IF reply.kind = "ok" THEN Set(FALSE, isSending) ELSE isSending
    /\ UNCHANGED <<apiCall, mounted, now, url, limit, sessionId, isCrawling, isCrawled,
                   crawlStatus, currentMessage, eventSourceRef, es, subscribeTimers,
                   crawlReqs, nCrawls, nSends>>

\* handleSendMessage after its await, the call r having ended with this reply:
\* the assistant turn (the response, or the catch block's apology) is appended
\* and, in finally, isSending cleared
HandleChatResponse(r, reply) ==
    /\ r \in chatReqs
    /\ chatReqs' = chatReqs \ {r}
    /\ messages' = Set(Append(messages, AssistantMessage(reply)), messages)
    /\ isSending' = Set(FALSE, isSending)
    /\ UNCHANGED <<apiCall, mounted, now, url, limit, sessionId, isCrawling, isCrawled,
                   crawlStatus, currentMessage, eventSourceRef, es, subscribeTimers,
                   crawlReqs, nCrawls, nSends>>

\* ---------------------------------------------------------- user interface
\* handleKeyPress for Enter without Shift
HandleKeyPress ==
    IF isCrawled /\ ~isSending THEN HandleSendMessage
    ELSE IF ~isCrawled /\ ~isCrawling THEN HandleCrawl
    ELSE UNCHANGED vars

\* the url field and the pages field are enabled
CrawlInputsEnabled ==
    mounted /\ ~(isCrawling \/ isCrawled)

\* the chat field is rendered and enabled
ChatInputEnabled ==
    mounted /\ isCrawled /\ ~isSending

\* typing into the url field
SetUrl(u) ==
    /\ CrawlInputsEnabled
    /\ url' = u
    /\ UNCHANGED <<apiCall, mounted, now, limit, sessionId, isCrawling, isCrawled,
                   crawlStatus, messages, currentMessage, isSending, eventSourceRef,
                   es, subscribeTimers, crawlReqs, chatReqs, nCrawls, nSends>>

\* typing into the pages field
SetLimit(p) ==
    /\ CrawlInputsEnabled
    /\ limit' = ClampLimit(p)
    /\ UNCHANGED <<apiCall, mounted, now, url, sessionId, isCrawling, isCrawled,
                   crawlStatus, messages, currentMessage, isSending, eventSourceRef,
                   es, subscribeTimers, crawlReqs, chatReqs, nCrawls, nSends>>

\* typing into the chat field
SetCurrentMessage(t) ==
    /\ ChatInputEnabled
    /\ currentMessage' = t
    /\ UNCHANGED <<apiCall, mounted, now, url, limit, sessionId, isCrawling, isCrawled,
                   crawlStatus, messages, isSending, eventSourceRef, es,
                   subscribeTimers, crawlReqs, chatReqs, nCrawls, nSends>>

\* mutant of ClickCrawl: the button is not disabled while isCrawled
ClickCrawlWhileCrawled ==
    /\ mounted
    /\ ~(isCrawling \/ IsBlank(url))
    /\ HandleCrawl

\* the Crawl Site button
ClickCrawl ==
    /\ mounted
    /\ ~(isCrawling \/ isCrawled \/ IsBlank(url))
    /\ HandleCrawl

\* Enter in the url field
KeyPressUrl ==
    /\ CrawlInputsEnabled
    /\ HandleKeyPress

\* the Send button
ClickSend ==
    /\ mounted
    /\ isCrawled
    /\ ~(isSending \/ IsBlank(currentMessage))
    /\ HandleSendMessage

\* Enter in the chat field
KeyPressChat ==
    /\ ChatInputEnabled
    /\ HandleKeyPress

\* mutant of ResetCrawl: isSending is reset with the rest of the state
ResetCrawlClearsSending ==
    /\ mounted
    /\ isCrawled
    /\ url' = <<>>
    /\ limit' = DefaultLimit
    /\ sessionId' = Null
    /\ isCrawling' = FALSE
    /\ isCrawled' = FALSE
    /\ crawlStatus' = ""
    /\ messages' = <<>>
    /\ currentMessage' = <<>>
    /\ isSending' = FALSE
    /\ es' = Closed(es, eventSourceRef)
    /\ UNCHANGED <<apiCall, mounted, now, eventSourceRef, subscribeTimers,
                   crawlReqs, chatReqs, nCrawls, nSends>>

\* resetCrawl, behind the Reset button, which is rendered while isCrawled
ResetCrawl ==
    /\ mounted
    /\ isCrawled
    /\ url' = <<>>
    /\ limit' = DefaultLimit
    /\ sessionId' = Null
    /\ isCrawling' = FALSE
    /\ isCrawled' = FALSE
    /\ crawlStatus' = ""
    /\ messages' = <<>>
    /\ currentMessage' = <<>>
    /\ es' = Closed(es, eventSourceRef)
    /\ UNCHANGED <<apiCall, mounted, now, isSending, eventSourceRef, subscribeTimers,
                   crawlReqs, chatReqs, nCrawls, nSends>>

\* the component is unmounted: the cleanup of the effect closes the channel.
\* React discards the component's state, which no handler reads afterwards; the
\* state variables hold their initial values from then on
Unmount ==
    /\ mounted
    /\ mounted' = FALSE
    /\ es' = Closed(es, eventSourceRef)
    /\ url' = <<>>
    /\ limit' = DefaultLimit
    /\ sessionId' = Null
    /\ isCrawling' = FALSE
    /\ isCrawled' = FALSE
    /\ crawlStatus' = ""
    /\ messages' = <<>>
    /\ currentMessage' = <<>>
    /\ isSending' = FALSE
    /\ UNCHANGED <<apiCall, now, eventSourceRef, subscribeTimers, crawlReqs,
                   chatReqs,
                   nCrawls, nSends>>

\* ------------------------------------------------------------ specification
Next ==
    \/ Tick
    \/ \E u \in Urls : SetUrl(u)
    \/ \E p \in LimitInputs : SetLimit(p)
    \/ ClickCrawl
    \/ KeyPressUrl
    \/ \E r \in crawlReqs : \E reply \in CrawlReplies(r.n) : HandleCrawlResponse(r, reply)
    \/ \E t \in subscribeTimers : SubscribeToStatus(t)
    \/ \E k \in 1..Len(es) : ConnectionTimeout(k)
    \/ \E k \in 1..Len(es) : OnOpen(k)
    \/ \E k \in 1..Len(es) : OnError(k)
    \/ \E k \in 1..Len(es), p \in Payloads : OnMessage(k, p)
    \/ \E t \in Texts : SetCurrentMessage(t)
    \/ ClickSend
    \/ KeyPressChat
    \/ \E r \in chatReqs, reply \in ChatReplies : HandleChatResponse(r, reply)
    \/ ResetCrawl
    \/ Unmount

Spec ==
    Init /\ [][Next]_vars

\* What the browser's event loop guarantees: an armed timer fires.  The user,
\* the server and the network are under no obligation: a call may stay without
\* an outcome and a channel without an event.
Fairness ==
    /\ WF_vars(\E t \in subscribeTimers : SubscribeToStatus(t))
    /\ WF_vars(\E k \in 1..Len(es) : ConnectionTimeout(k))

FairSpec ==
    Init /\ [][Next]_vars /\ Fairness

\* handleCrawl as a function of the url and the limit it reads: the component
\* started with any url and any limit, in and out of the two ranges
LimitValues == {0, 1, 20, 21, 100, 101}

InitValidate ==
    /\ mounted = TRUE
    /\ now = 0
    /\ url \in Urls
    /\ limit \in LimitValues
    /\ sessionId = Null
    /\ isCrawling = FALSE
    /\ isCrawled = FALSE
    /\ crawlStatus = ""
    /\ messages = <<>>
    /\ currentMessage = <<>>
    /\ isSending = FALSE
    /\ eventSourceRef = 0
    /\ es = <<>>
    /\ subscribeTimers = {}
    /\ crawlReqs = {}
    /\ chatReqs = {}
    /\ nCrawls = 0
    /\ nSends = 0
    /\ apiCall = [base |-> ApiBaseUrl, path |-> <<"health">>,
                  url |-> BuildApiUrl(ApiBaseUrl, <<"health">>)]

SpecValidate ==
    InitValidate /\ [][Next]_vars

\* buildApiUrl as a function of the origin and the path: origins and paths
\* without a slash at the joint, with one, and with two
Origins ==
    {core \o tail : core \in {<<"origin">>, <<"s", Slash, Slash, "h">>,
                               <<"h", "p">>, <<"h", Slash, "api">>},
                    tail \in {<<>>, <<Slash>>, <<Slash, Slash>>}}

Paths ==
    {head \o core : head \in {<<>>, <<Slash>>, <<Slash, Slash>>},
                    core \in {<<>>, <<"crawl">>, <<"chat">>,
                              <<"crawl", Slash, "id", Slash, "status">>,
                              <<"health", Slash>>}}

\* a call of buildApiUrl about to be made
InitBuild ==
    /\ mounted = TRUE
    /\ now = 0
    /\ url = <<>>
    /\ limit = DefaultLimit
    /\ sessionId = Null
    /\ isCrawling = FALSE
    /\ isCrawled = FALSE
    /\ crawlStatus = ""
    /\ messages = <<>>
    /\ currentMessage = <<>>
    /\ isSending = FALSE
    /\ eventSourceRef = 0
    /\ es = <<>>
    /\ subscribeTimers = {}
    /\ crawlReqs = {}
    /\ chatReqs = {}
    /\ nCrawls = 0
    /\ nSends = 0
    /\ \E base \in Origins, path \in Paths :
           apiCall = [base |-> base, path |-> path, url |-> Undefined]

\* the call returns
Build ==
    /\ apiCall.url = Undefined
    /\ apiCall' = [apiCall EXCEPT !.url = BuildApiUrl(apiCall.base, apiCall.path)]
    /\ UNCHANGED <<mounted, now, reactState, eventSourceRef, es, subscribeTimers,
                   crawlReqs, chatReqs, nCrawls, nSends>>

SpecBuild ==
    InitBuild /\ [][Build]_vars

\* ------------------------------------------------------------------ claims
\* channels that are not closed
OpenChannels ==
    {k \in 1..Len(es) : es[k].readyState # "CLOSED"}

\* the well-formed payloads of this type
Events(type) ==
    {p \in Payloads : p.valid /\ p.type = type}

\* the payloads JSON.parse rejects
Malformed ==
    {p \in Payloads : ~p.valid}

\* C1: whenever a completed event is handled while the (mounted) client is
\* crawling, the next state is ready (isCrawled, not isCrawling), the channel is
\* closed, and the transcript is the old transcript with one assistant message
\* appended whose content is the event's summary when the summary is present
\* (a non-empty string), and the old transcript when it is not.
C1_CompletedAppendsSummary ==
    [][\A k \in 1..Len(es), p \in Events("completed") :
          (mounted /\ isCrawling /\ OnMessage(k, p)) =>
              LET summary == p.summary
              IN  /\ isCrawled' /\ ~isCrawling'
                  /\ es'[k].readyState = "CLOSED"
                  /\ IF Truthy(summary)
                     THEN /\ Len(messages') = Len(messages) + 1
                          /\ SubSeq(messages', 1, Len(messages)) = messages
                          /\ messages'[Len(messages')].role = "ai"
                          /\ messages'[Len(messages')].content = summary
                     ELSE messages' = messages]_vars

\* C2: the transcript is the causal order of appends: when the outcome of a chat
\* query is handled, the transcript ends with the human turn of that query and
\* the assistant turn is appended right after it, nothing else changing.
C2_AssistantFollowsItsHuman ==
    [][\A r \in chatReqs, reply \in ChatReplies :
          (mounted /\ HandleChatResponse(r, reply)) =>
              /\ messages # <<>>
              /\ messages[Len(messages)] = r.userMessage
              /\ messages' = Append(messages, AssistantMessage(reply))]_vars

\* C3: immediately after reset the whole session state has its initial value
\* (session id null, both phase flags false, empty transcript, isSending false)
\* and no status channel is open.
C3_ResetRestoresInitial ==
    [][ResetCrawl =>
          /\ sessionId' = Null
          /\ ~isCrawling' /\ ~isCrawled'
          /\ messages' = <<>>
          /\ ~isSending'
          /\ OpenChannels' = {}]_vars

\* the crawl ended in an error: an error event, a connection fault or a timeout
ErrorPhase ==
    /\ mounted
    /\ ~isCrawling /\ ~isCrawled
    /\ crawlStatus \in {"error", "connection error", "timeout"}

\* C4 as stated: once an error has ended a crawl the client does not re-enter
\* the crawling phase without a reset (no step leads from the error phase to
\* crawling; a reset leads to idle).
C4_NoCrawlingAfterErrorWithoutReset ==
    [][ErrorPhase => ~isCrawling']_vars

\* C4 as amended: the crawling phase is entered only by a crawl-start of the
\* user (handleCrawl issuing a POST /crawl) and only from a state that is neither
\* crawling nor ready, which includes the error phase, with no reset in between;
\* the ready phase is entered only from crawling and left only by reset.
C4_PhaseMovesOnlyByCrawlStartAndReset ==
    [][(mounted /\ mounted') =>
          /\ (~isCrawling /\ isCrawling') =>
                 /\ ~isCrawled
                 /\ nCrawls' = nCrawls + 1
                 /\ ClickCrawl \/ KeyPressUrl
          /\ (~isCrawled /\ isCrawled') => (isCrawling /\ ~isCrawling')
          /\ (isCrawled /\ ~isCrawled') => ResetCrawl]_vars

\* C4 witness: a second crawl is running although no reset happened since the
\* first one (its session id is still stored) and the first channel is closed.
C4_Witness ==
    /\ mounted /\ isCrawling
    /\ nCrawls = 2
    /\ sessionId = SessionIdOf(1)
    /\ Len(es) = 1 /\ es[1].readyState = "CLOSED"

\* C5: at every instant at most one status channel is open, and it is the one
\* the ref holds: subscribing closes the referenced channel before it creates
\* and stores the next one.
C5_AtMostOneOpenChannel ==
    /\ Cardinality(OpenChannels) <= 1
    /\ OpenChannels \subseteq {eventSourceRef}

\* C5 witness: a second channel was subscribed and is open, the first is closed.
C5_Witness ==
    /\ Len(es) = 2
    /\ es[1].readyState = "CLOSED"
    /\ es[2].readyState = "OPEN"

\* C6: after the view is unmounted no status channel is open.
C6_NoChannelAfterTeardown ==
    ~mounted => OpenChannels = {}

\* the step dispatches on channel k an event that JSON.parse rejects
ParseFails(k) ==
    \E p \in Malformed : OnMessage(k, p)

\* the step dispatches on channel k a well-formed event of this type
Handles(k, type) ==
    \E p \in Events(type) : OnMessage(k, p)

\* what an error event does to the channel and the flags: the channel is closed,
\* isCrawling cleared, and the crawl inputs are enabled again
ActsLikeErrorEvent(k) ==
    /\ es'[k].readyState = "CLOSED"
    /\ ~isCrawling'
    /\ CrawlInputsEnabled'
    /\ UNCHANGED <<sessionId, isCrawled, messages, isSending>>

RefIn(states) ==
    eventSourceRef # 0 /\ es[eventSourceRef].readyState \in states

\* while the view is mounted, a channel that is connecting or open stays the
\* one the ref holds
RefKeepsLiveChannel ==
    [][(mounted /\ mounted' /\ RefIn({"CONNECTING", "OPEN"}))
          => eventSourceRef' = eventSourceRef]_vars

\* C8 as stated: a channel on which the server delivers no status event (the
\* status text never becomes that of an event) ends, within the timeout, closed
\* with the crawling flag false and an error status; also when the connection
\* was established and the server stays silent.
C8_SilentChannelEndsInTimeout ==
    /\ RefKeepsLiveChannel
    /\ (mounted /\ RefIn({"CONNECTING", "OPEN"}))
           ~> \/ ~mounted
              \/ crawlStatus \in StatusTypes \cup {"parse error"}
              \/ /\ RefIn({"CLOSED"})
                 /\ ~isCrawling
                 /\ crawlStatus \in {"timeout", "connection error"}

\* C8 as amended: a channel that is still connecting (no onopen, no onerror)
\* ends, while the view stays mounted, either established or closed with the
\* crawling flag false and an error status recorded; the timeout guards the
\* connection only, and an established channel on which the server stays silent
\* is left open with the client crawling.
C8_ConnectingChannelEndsInTimeout ==
    /\ RefKeepsLiveChannel
    /\ (mounted /\ RefIn({"CONNECTING"}))
           ~> \/ ~mounted
              \/ RefIn({"OPEN"})
              \/ /\ RefIn({"CLOSED"})
                 /\ ~isCrawling
                 /\ crawlStatus \in {"timeout", "connection error"}

\* C8 witness: the timeout has fired on a channel that never opened.
C8_Witness ==
    /\ mounted
    /\ crawlStatus = "timeout"
    /\ ~isCrawling
    /\ eventSourceRef # 0
    /\ es[eventSourceRef].readyState = "CLOSED"
    /\ es[eventSourceRef].timer = "off"

\* C9: a crawl started from the idle phase with a non-empty url and a limit in
\* 1..20 sets the crawling flag and issues the call with that url and limit; when
\* the call succeeds the stored session id is the session_id of the response and
\* the phase is still crawling.
C9_CrawlStartStoresSessionId ==
    [][/\ (/\ mounted /\ ~isCrawling /\ ~isCrawled
           /\ ~IsBlank(url) /\ limit \in UiMinLimit..UiMaxLimit
           /\ ClickCrawl \/ KeyPressUrl)
          => /\ isCrawling' /\ ~isCrawled'
             /\ \E r \in crawlReqs' \ crawlReqs : r.url = url /\ r.limit = limit
       /\ \A r \in crawlReqs : \A reply \in CrawlReplies(r.n) :
             (mounted /\ reply.kind = "ok" /\ HandleCrawlResponse(r, reply))
                 => /\ sessionId' = reply.session_id
                    /\ isCrawling /\ isCrawling' /\ ~isCrawled']_vars

\* C9 witness: the response of the crawl-start call has been handled.
C9_Witness ==
    /\ mounted /\ isCrawling /\ ~isCrawled
    /\ nCrawls >= 1
    /\ sessionId = SessionIdOf(nCrawls)
    /\ subscribeTimers # {}

Appends(role) ==
    /\ Len(messages') = Len(messages) + 1
    /\ SubSeq(messages', 1, Len(messages)) = messages
    /\ messages'[Len(messages')].role = role

\* C11: a human turn is appended only in a state where the phase is ready
\* (isCrawled), no chat query is in flight and isSending is false, whichever
\* entry point (Send button, Enter key) appends it and whatever resets came
\* before.
C11_HumanTurnOnlyWhenReadyAndIdle ==
    [][Appends("human") =>
          /\ mounted /\ isCrawled /\ ~isCrawling
          /\ ~isSending
          /\ chatReqs = {}
          /\ ClickSend \/ KeyPressChat]_vars

\* C11 witness: a second human turn was appended in a second session, after a
\* reset, and its query is in flight.
C11_Witness ==
    /\ mounted /\ isCrawled
    /\ nCrawls = 2 /\ nSends = 2
    /\ isSending
    /\ messages # <<>>
    /\ messages[Len(messages)].role = "human"
    /\ \E r \in chatReqs : r.n = 2 /\ r.userMessage = messages[Len(messages)]

\* the transcript a is a prefix of the transcript b
IsPrefix(a, b) ==
    Len(a) <= Len(b) /\ SubSeq(b, 1, Len(a)) = a

\* C12: between two resets the transcript is append-only: in every step of the
\* mounted component other than reset, the handling of a completed event
\* included, the transcript before the step is a prefix of the transcript after.
C12_TranscriptAppendOnly ==
    [][(mounted /\ mounted' /\ ~ResetCrawl) => IsPrefix(messages, messages')]_vars

\* the transcript reduced, turn by turn and in order, to role and content
Projected(msgs) ==
    [i \in 1..Len(msgs) |-> [f \in {"role", "content"} |-> msgs[i][f]]]

\* C13: every chat query issued carries as chat_history the transcript as it
\* stands once the human turn is appended (the transcript at send time, in
\* order, followed by the human turn holding the text typed), each turn reduced
\* to role and content; a query is issued exactly when a human turn is appended.
C13_HistoryIsTheTranscript ==
    [][/\ \A r \in chatReqs' \ chatReqs :
              /\ Appends("human")
              /\ messages'[Len(messages')].content = currentMessage
              /\ r.chat_history = Projected(messages')
              /\ Len(r.chat_history) = Len(messages) + 1
       /\ Appends("human") => Cardinality(chatReqs' \ chatReqs) = 1]_vars

\* C13 witness: a query in flight whose history holds a whole earlier exchange
\* (summary, human turn, assistant turn) before the human turn just added.
C13_Witness ==
    /\ mounted /\ isCrawled
    /\ \E r \in chatReqs :
           /\ Len(r.chat_history) = 4
           /\ r.chat_history = Projected(messages)
           /\ r.chat_history[2].role = "human"
           /\ r.chat_history[3].role = "ai"
           /\ r.chat_history[4].role = "human"

\* the turn just appended
LastAppended ==
    messages'[Len(messages')]

\* C14: the outcome of every chat query, handled while the view is mounted,
\* appends exactly one assistant turn: for a failure (non-2xx status, rejected
\* fetch or unreadable body) the synthesized apology naming the error, for a
\* success the response text (the placeholder text when the body has none) with
\* the search results of the body; either way isSending is false afterwards, so
\* the chat input of a ready session is enabled again.
C14_EveryOutcomeAppendsOneTurn ==
    [][\A r \in chatReqs, reply \in ChatReplies :
          (mounted /\ HandleChatResponse(r, reply)) =>
              /\ Appends("ai")
              /\ IF reply.kind = "ok"
                 THEN /\ Truthy(reply.response)
                            => LastAppended.content = reply.response
                      /\ ~Truthy(reply.response)
                            => LastAppended.content = <<"I received your message.">>
                      /\ LastAppended.search_results = reply.search_results
                 ELSE /\ LastAppended.content = ErrorText(reply.kind)
                      /\ LastAppended.search_results = Undefined
              /\ ~isSending'
              /\ r \notin chatReqs'
              /\ isCrawled' => ChatInputEnabled']_vars

\* C14 witness: a failed query has been answered by the apology, and the chat
\* input is enabled again.
C14_Witness ==
    /\ ChatInputEnabled
    /\ chatReqs = {}
    /\ Len(messages) >= 2
    /\ messages[Len(messages) - 1].role = "human"
    /\ messages[Len(messages)].role = "ai"
    /\ messages[Len(messages)].content = ErrorText("rejected")

\* C15: a channel that is still connecting (neither onopen nor onerror has
\* run) has its connection timer armed, and when that timer fires the channel
\* is closed and, the view being mounted, the crawling flag is cleared and the
\* timeout recorded as the status, the session id, the ready flag and the
\* transcript staying as they are.
C15_TimeoutClosesConnectingChannel ==
    [][\A k \in 1..Len(es) :
          es[k].readyState = "CONNECTING" =>
              /\ es[k].timer = "armed"
              /\ ConnectionTimeout(k) =>
                     /\ es'[k].readyState = "CLOSED"
                     /\ es'[k].timer = "off"
                     /\ mounted =>
                            /\ ~isCrawling'
                            /\ crawlStatus' = "timeout"
                            /\ UNCHANGED <<sessionId, isCrawled, messages>>]_vars

\* C15 witness: the first crawl was ended by the connection timeout; its session
\* id is still stored and the crawl inputs are enabled again.
C15_Witness ==
    /\ CrawlInputsEnabled
    /\ nCrawls = 1
    /\ crawlStatus = "timeout"
    /\ sessionId = SessionIdOf(1)
    /\ Len(es) = 1
    /\ es[1] = [readyState |-> "CLOSED", session |-> SessionIdOf(1), timer |-> "off"]

\* the step is a failure that ends the crawl attempt: a rejected input, a failed
\* crawl-start call, a dropped connection, a connection timeout
EndingCrawlFailure ==
    \/ /\ ClickCrawl \/ KeyPressUrl
       /\ IsBlank(url) \/ LimitOutOfRange(limit)
    \/ \E r \in crawlReqs, kind \in {"http", "rejected"} :
           HandleCrawlResponse(r, [kind |-> kind, session_id |-> Undefined])
    \/ \E k \in 1..Len(es) :
           \/ OnError(k)
           \/ es[k].readyState = "CONNECTING" /\ ConnectionTimeout(k)

\* the step is a failure of the crawl: one that ends the attempt, or a payload
\* that fails to parse
CrawlFailure ==
    \/ EndingCrawlFailure
    \/ \E k \in 1..Len(es) : ParseFails(k)

\* the step is a failure of a chat query
ChatFailure ==
    \E r \in chatReqs, reply \in ChatReplies :
        reply.kind # "ok" /\ HandleChatResponse(r, reply)

\* the user can start a crawl, or a session is ready
CanRetryCrawl ==
    ~isCrawling /\ (~isCrawled => CrawlInputsEnabled)

C17_LimitWithinUiRange ==
    /\ limit \in UiMinLimit..UiMaxLimit
    /\ \A r \in crawlReqs : r.limit \in UiMinLimit..UiMaxLimit

\* C17 witness: after a first crawl attempt that stored no session, the pages field
\* was edited to the upper end of the range and a crawl-start request carrying
\* that limit is in flight.
C17_Witness ==
    /\ mounted
    /\ nCrawls = 2
    /\ sessionId = Null
    /\ limit = UiMaxLimit
    /\ \E r \in crawlReqs : r.n = 2 /\ r.limit = UiMaxLimit

\* s without its one trailing slash, if it has one
WithoutTrailingSlash(s) ==
    IF s # <<>> /\ s[Len(s)] = Slash THEN SubSeq(s, 1, Len(s) - 1) ELSE s

\* s without its one leading slash, if it has one
WithoutLeadingSlash(s) ==
    IF s # <<>> /\ s[1] = Slash THEN SubSeq(s, 2, Len(s)) ELSE s

\* the origin has at most one trailing slash and the path at most one leading
\* slash
AtMostOneSlashEach(base, path) ==
    /\ WithoutTrailingSlash(base) = WithoutTrailingSlash(WithoutTrailingSlash(base))
    /\ WithoutLeadingSlash(path) = WithoutLeadingSlash(WithoutLeadingSlash(path))

\* C18: for an origin with or without one trailing slash and a path with or
\* without one leading slash, the URL built is the origin without its trailing
\* slash, one slash, and the path without its leading slash; the four
\* combinations of one origin and one path therefore build the same URL.
C18_OneSeparatingSlash ==
    (apiCall.url # Undefined /\ AtMostOneSlashEach(apiCall.base, apiCall.path))
        => apiCall.url = WithoutTrailingSlash(apiCall.base) \o <<Slash>>
                             \o WithoutLeadingSlash(apiCall.path)

\* C18 witness: the URL was built from an origin ending in a slash and a path
\* starting with one.
C18_Witness ==
    /\ apiCall.base = <<"s", Slash, Slash, "h", Slash>>
    /\ apiCall.path = <<Slash, "crawl", Slash, "id", Slash, "status">>
    /\ apiCall.url = <<"s", Slash, Slash, "h", Slash, "crawl", Slash, "id", Slash,
                       "status">>

\* C19: handling a connected, status or progress event changes the status
\* text only: the session id, isCrawling, isCrawled, the transcript, isSending,
\* the ref and every channel's state are unchanged.
C19_AdvisoryEventsChangeStatusOnly ==
    [][\A k \in 1..Len(es), type \in {"connected", "status", "progress"} :
          Handles(k, type) =>
              /\ mounted => crawlStatus' = type
              /\ UNCHANGED <<sessionId, isCrawling, isCrawled, messages, isSending,
                             eventSourceRef, es, url, limit, currentMessage>>]_vars

\* C19 witness: a progress event has been handled; the client is still crawling
\* on the open channel.
C19_Witness ==
    /\ mounted /\ isCrawling /\ ~isCrawled
    /\ crawlStatus = "progress"
    /\ RefIn({"OPEN"})
    /\ messages = <<>>

\* the step handles a failed crawl-start call (non-2xx status or rejected fetch)
CrawlStartFails ==
    \E r \in crawlReqs, kind \in {"http", "rejected"} :
        HandleCrawlResponse(r, [kind |-> kind, session_id |-> Undefined])

\* C20: when the crawl-start call fails the crawling flag is cleared, the
\* session id is unchanged, and no status channel is opened or scheduled: no
\* channel is connecting or open and no subscribe timer is pending afterwards;
\* and the session id changes to a non-null value only in the step that handles
\* a successful crawl-start response, to the session_id of that response.
C20_FailedCrawlStartStoresNothing ==
    [][mounted =>
          /\ CrawlStartFails =>
                 /\ ~isCrawling'
                 /\ UNCHANGED <<sessionId, isCrawled, es, eventSourceRef,
                                subscribeTimers>>
                 /\ subscribeTimers' = {}
                 /\ OpenChannels' = {}
          /\ (sessionId' # sessionId /\ sessionId' # Null) =>
                 \E r \in crawlReqs :
                     /\ HandleCrawlResponse(r, [kind |-> "ok",
                                                session_id |-> SessionIdOf(r.n)])
                     /\ sessionId' = SessionIdOf(r.n)]_vars

\* C20 witness: the second crawl-start call has failed; the session id stored
\* by the first is still held and nothing is scheduled.
C20_Witness ==
    /\ mounted /\ ~isCrawling /\ ~isCrawled
    /\ nCrawls = 2
    /\ crawlStatus = "starting"
    /\ sessionId = SessionIdOf(1)
    /\ crawlReqs = {}
    /\ subscribeTimers = {}
    /\ Len(es) = 1

\* a step of channel k: one of its events is handled, or its timer fires
ChannelStep(k) ==
    \/ OnOpen(k)
    \/ OnError(k)
    \/ ConnectionTimeout(k)
    \/ \E p \in Payloads : OnMessage(k, p)

\* channel k is closed and its connection timer is off
Finished(k) ==
    es[k].readyState = "CLOSED" /\ es[k].timer = "off"

\* C21: handling a terminal event (completed or error) of a channel leaves that
\* channel closed with its timer off, and for a channel in that state no event
\* is handled and no timer fires any more (no step of the channel is enabled),
\* so at most one terminal event is handled per channel and nothing of the
\* channel changes the client state afterwards.
C21_OneTerminalEventPerChannel ==
    [][\A k \in 1..Len(es) :
          /\ (/\ es[k].readyState = "OPEN"
              /\ (Handles(k, "completed") \/ Handles(k, "error"))) => Finished(k)'
          /\ Finished(k) =>
                 /\ ~ENABLED ChannelStep(k)
                 /\ Len(es') >= k /\ es'[k] = es[k]]_vars

\* C21 witness: an error event has ended the crawl and closed its channel.
C21_Witness ==
    /\ mounted /\ ~isCrawling /\ ~isCrawled
    /\ crawlStatus = "error"
    /\ eventSourceRef # 0
    /\ Finished(eventSourceRef)

\* C22: handling onopen of a channel turns its connection timer off, a timer
\* that is off is never armed again and cannot fire, and the timer that does
\* fire is that of a channel that never opened; so once onopen has been handled
\* no later step closes the channel or clears the crawling flag because of the
\* connection timeout.
C22_NoTimeoutAfterOpen ==
    [][\A k \in 1..Len(es) :
          /\ OnOpen(k) => es'[k].timer = "off"
          /\ es[k].readyState = "OPEN" => es[k].timer = "off"
          /\ es[k].timer = "off" =>
                 /\ ~ENABLED ConnectionTimeout(k)
                 /\ Len(es') >= k /\ es'[k].timer = "off"
          /\ ConnectionTimeout(k) => es[k].readyState # "OPEN"
          /\ (mounted /\ crawlStatus' = "timeout" /\ crawlStatus # "timeout")
                 => \E j \in 1..Len(es) :
                        es[j].timer = "armed" /\ ConnectionTimeout(j)]_vars

\* C22 witness: the channel is established and the server has started to
\* report; its timer is off and the client is crawling.
C22_Witness ==
    /\ mounted /\ isCrawling
    /\ crawlStatus = "status"
    /\ RefIn({"OPEN"})
    /\ es[eventSourceRef].timer = "off"

\* C23: the connection timer of a channel only ever acts on that channel: when
\* the timer of channel k fires, k is the channel the ref holds and the newest
\* one, no other channel changes, and the crawl whose flag is cleared is the
\* one channel k follows (the session id held is the channel's).
C23_TimeoutActsOnItsOwnChannel ==
    [][\A k \in 1..Len(es) :
          ConnectionTimeout(k) =>
              /\ eventSourceRef = k
              /\ k = Len(es)
              /\ \A j \in 1..Len(es) : j # k => es'[j] = es[j]
              /\ mounted => sessionId = es[k].session]_vars

\* C23 witness: after the first channel was closed by a connection error, the
\* channel of the second crawl has timed out.
C23_Witness ==
    /\ mounted /\ ~isCrawling
    /\ crawlStatus = "timeout"
    /\ Len(es) = 2
    /\ eventSourceRef = 2
    /\ Finished(1) /\ Finished(2)
    /\ sessionId = SessionIdOf(2)

\* C24: the outcome of a chat query issued in one crawl session is never
\* appended to the transcript of a later session: when it is handled while the
\* session that is ready is not the one the query was sent in, the transcript
\* is left as it is.
C24_LateResponseNotInLaterSession ==
    [][\A r \in chatReqs, reply \in ChatReplies :
          (/\ mounted /\ isCrawled
           /\ r.session_id # sessionId
           /\ HandleChatResponse(r, reply))
              => messages' = messages]_vars

\* C25: in every reachable state at most one chat query is outstanding, and
\* while the view is mounted isSending is set exactly when one is.
C25_AtMostOneQueryOutstanding ==
    /\ Cardinality(chatReqs) <= 1
    /\ mounted => (isSending <=> chatReqs # {})

\* C25 witness: the query sent in the first session is still outstanding while
\* the second session is ready; the chat input is disabled.
C25_Witness ==
    /\ mounted /\ isCrawled
    /\ sessionId = SessionIdOf(2)
    /\ isSending
    /\ ~ChatInputEnabled
    /\ \E r \in chatReqs : r.session_id = SessionIdOf(1)

\* C26: isCrawling and isCrawled are never both true; while isCrawled the
\* session id is non-null and is the id of the session whose channel delivered
\* the completed event last (the channel the ref holds, now closed); and every
\* chat query issued is issued while isCrawled and carries that id.
C26_ReadyHasItsSessionId ==
    [][/\ ~(isCrawling /\ isCrawled)
       /\ isCrawled =>
              /\ sessionId # Null /\ Truthy(sessionId)
              /\ eventSourceRef # 0
              /\ Finished(eventSourceRef)
              /\ sessionId = es[eventSourceRef].session
       /\ \A r \in chatReqs' \ chatReqs :
              isCrawled /\ r.session_id = sessionId]_vars

\* C26 witness: in the second session, ready, a query carrying the second
\* session's id is in flight.
C26_Witness ==
    /\ mounted /\ isCrawled /\ ~isCrawling
    /\ sessionId = SessionIdOf(2)
    /\ \E r \in chatReqs : r.session_id = SessionIdOf(2)

\* C27: in every reachable state the messages of the transcript have pairwise
\* distinct ids.
C27_MessageIdsDistinct ==
    \A i, j \in 1..Len(messages) :
        i # j => messages[i].id # messages[j].id

\* an event of channel k is delivered to one of its handlers
EventDelivered(k) ==
    \/ OnOpen(k)
    \/ OnError(k)
    \/ \E p \in Payloads : OnMessage(k, p)

====
